---- MODULE Spec2Model ----
(***************************************************************************)
(* The embedding server of scripts/gte-small.py: a process that loads one  *)
(* SentenceTransformer at import time, then serves POST /embed and         *)
(* GET /health from a single uvicorn event loop.                           *)
(***************************************************************************)
EXTENDS Integers, Sequences, FiniteSets, TLC

\* ------------------------------------------------------------------ bounds
\* Requests issued during one process lifetime.
MaxRequests == 2
\* Longest `sentences` array a client sends.
MaxLen == 2
\* The strings clients put in `sentences` (the empty string is permitted).
Sentences == {"", "hi"}

Requests == 1..MaxRequests

\* --------------------------------------------------------- the model object
\* `model` before line 7 has run.
NotLoaded == 0

\* The weight sets the loader may produce for the model name.
Models == {1, 2}

\* Output dimensionality of a weight set (fixed by the weights, not the request).
Dim(m) == m + 1

Code(s) == IF s = "" THEN 1 ELSE 2

\* The embedding the weights m give a sentence: Dim(m) floats.
Vec(m, s) == [k \in 1..Dim(m) |-> 100 * m + 10 * Code(s) + k]

\* model.encode(sentences): an ndarray of shape (len, D), row i for sentence i,
\* stored row-major; for no sentences, np.asarray([]) of shape (0,).
Encode(m, S) ==
    IF Len(S) = 0
    THEN [shape |-> <<0>>, data |-> <<>>]
    ELSE [shape |-> <<Len(S), Dim(m)>>,
          data |-> [j \in 1..(Len(S) * Dim(m)) |->
                      Vec(m, S[((j - 1) \div Dim(m)) + 1])[((j - 1) % Dim(m)) + 1]]]

\* ndarray.tolist(): nested lists, one per row; a 1-d array gives a flat list.
ToList(arr) ==
    IF Len(arr.shape) = 1
    THEN arr.data
    ELSE [i \in 1..arr.shape[1] |->
            [k \in 1..arr.shape[2] |-> arr.data[(i - 1) * arr.shape[2] + k]]]

\* ------------------------------------------------------------ request bodies
JStr(s) == [t |-> "str", s |-> s]
JNum == [t |-> "num", s |-> "1"]
JNull == [t |-> "null", s |-> ""]
JList(xs) == [t |-> "list", items |-> xs]

\* A request with no body at all.
NoBody == [t |-> "none"]
\* A JSON object without the `sentences` field.
ObjWithout == [t |-> "obj", has |-> FALSE]
ObjWith(v) == [t |-> "obj", has |-> TRUE, sentences |-> v]

SeqsUpTo(S, n) == UNION {[1..k -> S] : k \in 0..n}

StrLists == {JList(xs) : xs \in SeqsUpTo({JStr(s) : s \in Sentences}, MaxLen)}

\* Arrays holding at least one element that is not a string.
MixedLists == {JList(<<JNum>>), JList(<<JStr("hi"), JNull>>)}

ValidBodies == {ObjWith(v) : v \in StrLists}

InvalidBodies ==
    {NoBody, ObjWithout, ObjWith(JStr("hi"))}
        \cup {ObjWith(v) : v \in MixedLists}

Bodies == ValidBodies \cup InvalidBodies

\* Fault variant: element types are coerced instead of checked, so any array
\* passes.
ValidItemCoercing(b) ==
    /\ b.t = "obj"
    /\ b.has
    /\ b.sentences.t = "list"

IsListOfStr(v) ==
    /\ v.t = "list"
    /\ \A i \in 1..Len(v.items) : v.items[i].t = "str"

\* class Item(BaseModel): sentences: list[str]
ValidItem(b) ==
    /\ b.t = "obj"
    /\ b.has
    /\ IsListOfStr(b.sentences)

\* item.sentences of a validated body.
ItemSentences(b) == [i \in 1..Len(b.sentences.items) |-> b.sentences.items[i].s]

\* ---------------------------------------------------------------- responses
NoResp == [status |-> 0, kind |-> "none", vectors |-> <<>>]
\* 200 with the JSON array of arrays embed returns.
OkVectors(vs) == [status |-> 200, kind |-> "array", vectors |-> vs]
\* FastAPI's answer to a body that does not validate as Item.
Unprocessable == [status |-> 422, kind |-> "detail", vectors |-> <<>>]
\* Starlette's answer to an exception escaping a handler.
InternalError == [status |-> 500, kind |-> "text", vectors |-> <<>>]
\* {"status": "ok"}
HealthOk == [status |-> 200, kind |-> "health", vectors |-> <<>>]

\* -------------------------------------------------------------------- state
VARIABLES
    server,       \* "importing" | "loaded" | "serving" | "exited"
    model,        \* the module global: NotLoaded or a weight set
    loads,        \* how many times SentenceTransformer(...) has returned
    issued,       \* number of requests clients have sent so far
    route,        \* route[r]: "none" | "embed" | "health"
    body,         \* body[r]: the request body
    pc,           \* pc[r]: "idle" | "received" | "encoding" | "done"
    item,         \* item[r]: the validated Item.sentences
    resp,         \* resp[r]: the response sent, NoResp until then
    running,      \* the request whose handler holds the event loop thread, or 0
    encodeCalls,  \* requests for which model.encode has been invoked
    usedModel,    \* usedModel[r]: the model object encode was invoked on
    raised,       \* requests whose model.encode call raised
    errorsBefore  \* errorsBefore[r]: error statuses already answered when r was sent

vars == <<server, model, loads, issued, route, body, pc, item, resp, running,
          encodeCalls, usedModel, raised, errorsBefore>>

\* The error statuses among the responses sent so far.
ErrorsAnswered == {resp[r].status : r \in {q \in Requests : pc[q] = "done"}} \ {200}

Init ==
    /\ server = "importing"
    /\ model = NotLoaded
    /\ loads = 0
    /\ issued = 0
    /\ route = [r \in Requests |-> "none"]
    /\ body = [r \in Requests |-> NoBody]
    /\ pc = [r \in Requests |-> "idle"]
    /\ item = [r \in Requests |-> <<>>]
    /\ resp = [r \in Requests |-> NoResp]
    /\ running = 0
    /\ encodeCalls = {}
    /\ usedModel = [r \in Requests |-> NotLoaded]
    /\ raised = {}
    /\ errorsBefore = [r \in Requests |-> {}]

\* ------------------------------------------------------------------ startup
\* Line 7 returns a model.
LoadModel ==
    /\ server = "importing"
    /\ \E m \in Models : model' = m
    /\ loads' = loads + 1
    /\ server' = "loaded"
    /\ UNCHANGED <<issued, route, body, pc, item, resp, running, encodeCalls,
                   usedModel, raised, errorsBefore>>

\* Fault variant: the load error is caught and the script carries on.
LoadFailSwallowed ==
    /\ server = "importing"
    /\ server' = "loaded"
    /\ UNCHANGED <<model, loads, issued, route, body, pc, item, resp, running,
                   encodeCalls, usedModel, raised, errorsBefore>>

\* Line 7 raises: the import dies with a traceback, line 23 is never reached.
LoadFail ==
    /\ server = "importing"
    /\ server' = "exited"
    /\ UNCHANGED <<model, loads, issued, route, body, pc, item, resp, running,
                   encodeCalls, usedModel, raised, errorsBefore>>

\* uvicorn.run(app, ...): the socket is bound and connections are accepted.
Run ==
    /\ server = "loaded"
    /\ server' = "serving"
    /\ UNCHANGED <<model, loads, issued, route, body, pc, item, resp, running,
                   encodeCalls, usedModel, raised, errorsBefore>>

\* ----------------------------------------------------------------- requests
\* A client sends the next request; the listening socket takes it.
Issue(rt, b) ==
    /\ server = "serving"
    /\ issued < MaxRequests
    /\ issued' = issued + 1
    /\ route' = [route EXCEPT ![issued + 1] = rt]
    /\ body' = [body EXCEPT ![issued + 1] = b]
    /\ pc' = [pc EXCEPT ![issued + 1] = "received"]
    /\ errorsBefore' = [errorsBefore EXCEPT ![issued + 1] = ErrorsAnswered]
    /\ UNCHANGED <<server, model, loads, item, resp, running, encodeCalls,
                   usedModel, raised>>

IssueEmbed == \E b \in Bodies : Issue("embed", b)

IssueHealth == Issue("health", NoBody)

\* FastAPI validates the body against Item before calling embed; a body that
\* fails is answered 422 and embed is not entered.
RejectInvalid(r) ==
    /\ server = "serving"
    /\ running = 0
    /\ route[r] = "embed"
    /\ pc[r] = "received"
    /\ ~ValidItem(body[r])
    /\ resp' = [resp EXCEPT ![r] = Unprocessable]
    /\ pc' = [pc EXCEPT ![r] = "done"]
    /\ UNCHANGED <<server, model, loads, issued, route, body, item, running,
                   encodeCalls, usedModel, raised, errorsBefore>>

\* Fault variant: the handler builds a fresh SentenceTransformer per request.
EmbedCallReloads(r) ==
    /\ server = "serving"
    /\ running = 0
    /\ route[r] = "embed"
    /\ pc[r] = "received"
    /\ ValidItem(body[r])
    /\ item' = [item EXCEPT ![r] = ItemSentences(body[r])]
    /\ pc' = [pc EXCEPT ![r] = "encoding"]
    /\ running' = r
    /\ encodeCalls' = encodeCalls \cup {r}
    /\ \E m \in Models : model' = m /\ usedModel' = [usedModel EXCEPT ![r] = m]
    /\ loads' = loads + 1
    /\ UNCHANGED <<server, issued, route, body, resp, raised, errorsBefore>>

\* Fault variant: embed declared with `def`, so the framework runs it in its
\* thread pool and the event loop stays free.
EmbedCallInThreadpool(r) ==
    /\ server = "serving"
    /\ running = 0
    /\ route[r] = "embed"
    /\ pc[r] = "received"
    /\ ValidItem(body[r])
    /\ item' = [item EXCEPT ![r] = ItemSentences(body[r])]
    /\ pc' = [pc EXCEPT ![r] = "encoding"]
    /\ encodeCalls' = encodeCalls \cup {r}
    /\ usedModel' = [usedModel EXCEPT ![r] = model]
    /\ UNCHANGED <<server, model, loads, issued, route, body, resp, running,
                   raised, errorsBefore>>

\* The body validates as Item: the event loop enters `async def embed`, which
\* calls model.encode(item.sentences) on the loop's own thread.
EmbedCall(r) ==
    /\ server = "serving"
    /\ running = 0
    /\ route[r] = "embed"
    /\ pc[r] = "received"
    /\ ValidItem(body[r])
    /\ item' = [item EXCEPT ![r] = ItemSentences(body[r])]
    /\ pc' = [pc EXCEPT ![r] = "encoding"]
    /\ running' = r
    /\ encodeCalls' = encodeCalls \cup {r}
    /\ usedModel' = [usedModel EXCEPT ![r] = model]
    /\ UNCHANGED <<server, model, loads, issued, route, body, resp, raised,
                   errorsBefore>>

\* Fault variant: the last row of the result is lost.
EmbedResultDropsLast(m, S) ==
    IF Len(S) = 0 THEN <<>> ELSE SubSeq(ToList(Encode(m, S)), 1, Len(S) - 1)

\* Fault variant: rows come back in the encoder's length-sorted batch order.
EmbedResultLengthSorted(m, S) ==
    ToList(Encode(m, SelectSeq(S, LAMBDA s : Code(s) = 1)
                        \o SelectSeq(S, LAMBDA s : Code(s) = 2)))

\* What embed returns once encode has returned: embeddings.tolist().
EmbedResult(m, S) == ToList(Encode(m, S))

\* model.encode returns; embed returns the list; the response is 200.
EncodeReturn(r) ==
    /\ pc[r] = "encoding"
    /\ resp' = [resp EXCEPT ![r] = OkVectors(EmbedResult(usedModel[r], item[r]))]
    /\ pc' = [pc EXCEPT ![r] = "done"]
    /\ running' = 0
    /\ UNCHANGED <<server, model, loads, issued, route, body, item,
                   encodeCalls, usedModel, raised, errorsBefore>>

\* Fault variant: the exception escapes the server and ends the process.
EncodeRaiseKillsProcess(r) ==
    /\ pc[r] = "encoding"
    /\ server' = "exited"
    /\ raised' = raised \cup {r}
    /\ UNCHANGED <<model, loads, issued, route, body, pc, item, resp, running,
                   encodeCalls, usedModel, errorsBefore>>

\* Fault variant: embed catches the exception and returns an empty list.
EncodeRaiseSwallowed(r) ==
    /\ pc[r] = "encoding"
    /\ resp' = [resp EXCEPT ![r] = OkVectors(<<>>)]
    /\ pc' = [pc EXCEPT ![r] = "done"]
    /\ running' = 0
    /\ raised' = raised \cup {r}
    /\ UNCHANGED <<server, model, loads, issued, route, body, item,
                   encodeCalls, usedModel, errorsBefore>>

\* model.encode raises; nothing in embed catches it, the framework answers 500.
EncodeRaise(r) ==
    /\ pc[r] = "encoding"
    /\ resp' = [resp EXCEPT ![r] = InternalError]
    /\ pc' = [pc EXCEPT ![r] = "done"]
    /\ running' = 0
    /\ raised' = raised \cup {r}
    /\ UNCHANGED <<server, model, loads, issued, route, body, item,
                   encodeCalls, usedModel, errorsBefore>>

\* Fault variant: health reports the outcome of earlier encode calls.
HealthResponseChecksModel == IF raised = {} THEN HealthOk ELSE InternalError

\* What health() returns.
HealthResponse == HealthOk

\* async def health(): one step of the event loop.
Health(r) ==
    /\ server = "serving"
    /\ running = 0
    /\ route[r] = "health"
    /\ pc[r] = "received"
    /\ resp' = [resp EXCEPT ![r] = HealthResponse]
    /\ pc' = [pc EXCEPT ![r] = "done"]
    /\ UNCHANGED <<server, model, loads, issued, route, body, item, running,
                   encodeCalls, usedModel, raised, errorsBefore>>

Next ==
    \/ LoadModel
    \/ LoadFail
    \/ Run
    \/ IssueEmbed
    \/ IssueHealth
    \/ \E r \in Requests : RejectInvalid(r)
    \/ \E r \in Requests : EmbedCall(r)
    \/ \E r \in Requests : EncodeReturn(r)
    \/ \E r \in Requests : EncodeRaise(r)
    \/ \E r \in Requests : Health(r)

Spec == Init /\ [][Next]_vars

\* ------------------------------------------------------------------- claims
\* The sentences a client put in request r, read off the body it sent.
SentencesOf(r) ==
    [i \in 1..Len(body[r].sentences.items) |-> body[r].sentences.items[i].s]

Answered(r) == pc[r] = "done" /\ resp[r] # NoResp

EmbedOk(r) == route[r] = "embed" /\ Answered(r) /\ resp[r].status = 200

\* C1: a successful POST /embed for a valid body with sentences S answers 200
\* with exactly Len(S) vectors, the i-th being the embedding of S[i] under the
\* loaded model; for S = [] the answer is [].
C1_OneVectorPerSentenceInOrder ==
    \A r \in Requests :
        (route[r] = "embed" /\ body[r] \in ValidBodies /\ Answered(r)
            /\ r \notin raised)
        => /\ resp[r].status = 200
           /\ resp[r].kind = "array"
           /\ Len(resp[r].vectors) = Len(SentencesOf(r))
           /\ \A i \in 1..Len(SentencesOf(r)) :
                 resp[r].vectors[i] = Vec(model, SentencesOf(r)[i])
           /\ (SentencesOf(r) = <<>> => resp[r].vectors = <<>>)

\* Two distinct sentences answered in order, and an empty array answered [].
C1_Witness ==
    \E r, q \in Requests :
        /\ EmbedOk(r) /\ EmbedOk(q)
        /\ SentencesOf(r) = <<"hi", "">>
        /\ resp[r].vectors[1] # resp[r].vectors[2]
        /\ SentencesOf(q) = <<>>
        /\ resp[q].vectors = <<>>

\* C2: a POST /embed whose body is missing, lacks `sentences`, or carries a
\* `sentences` that is not an array of strings is answered 4xx, model.encode is
\* never invoked for it, and the process goes on serving.
C2_InvalidBodyRejectedBeforeEncode ==
    \A r \in Requests :
        (route[r] = "embed" /\ body[r] \in InvalidBodies)
        => /\ r \notin encodeCalls
           /\ pc[r] # "encoding"
           /\ pc[r] = "done" => /\ resp[r].status \in 400..499
                                /\ resp[r].vectors = <<>>
                                /\ server = "serving"

\* An array with a non-string element was rejected, and a request sent after
\* that rejection was answered 200.
C2_Witness ==
    \E r, q \in Requests :
        /\ route[r] = "embed" /\ body[r] = ObjWith(JList(<<JNum>>))
        /\ resp[r].status = 422
        /\ 422 \in errorsBefore[q]
        /\ EmbedOk(q)

\* What a correct answer to request q looks like, whatever came before it.
HandledNormally(q) ==
    CASE route[q] = "health" ->
            resp[q].status = 200 /\ resp[q].kind = "health"
      [] route[q] = "embed" /\ body[q] \in InvalidBodies ->
            resp[q].status \in 400..499
      [] OTHER ->
            \/ q \in raised /\ resp[q].status \in 500..599
            \/ /\ q \notin raised
               /\ resp[q].status = 200
               /\ Len(resp[q].vectors) = Len(SentencesOf(q))

\* C3: when model.encode raises for a valid request, that request is answered
\* 5xx, the process stays up, and every request sent afterwards is still taken
\* up by the event loop and answered as it would have been.
C3_EncodeFailureIs5xxAndServerSurvives ==
    /\ \A r \in raised :
          /\ resp[r].status \in 500..599
          /\ server = "serving"
    /\ \A q \in Requests :
          (\E s \in errorsBefore[q] : s \in 500..599)
          => /\ pc[q] = "done" => HandledNormally(q)
             /\ (pc[q] = "received" /\ running = 0)
                   => ENABLED (RejectInvalid(q) \/ EmbedCall(q) \/ Health(q))

\* An encode failure answered 500, then a later embed answered 200.
C3_Witness ==
    \E r \in raised, q \in Requests :
        /\ resp[r].status = 500
        /\ 500 \in errorsBefore[q]
        /\ EmbedOk(q)
        /\ Len(resp[q].vectors) > 0

\* C4: every answer to GET /health is 200 {"status": "ok"}, whatever /embed
\* traffic came before, and the handler never touches the model.
C4_HealthAlwaysOk ==
    \A r \in Requests :
        route[r] = "health"
        => /\ r \notin encodeCalls
           /\ usedModel[r] = NotLoaded
           /\ pc[r] = "done" => /\ resp[r].status = 200
                                /\ resp[r].kind = "health"

\* Health answered after an encode failure had already been answered.
C4_Witness ==
    \E r \in Requests, q \in raised :
        /\ route[r] = "health"
        /\ resp[q].status = 500
        /\ 500 \in errorsBefore[r]
        /\ pc[r] = "done"
        /\ resp[r].status = 200

\* The model is in place whenever the server listens or a request exists, it
\* was built once, and every encode call ran on that very object.
C5_LoadedOnceBeforeServing ==
    /\ loads <= 1
    /\ (server = "serving" \/ issued > 0 \/ encodeCalls # {})
          => (loads = 1 /\ model \in Models)
    /\ (loads = 0 /\ server # "importing") => (server = "exited" /\ issued = 0)
    /\ \A r \in encodeCalls : usedModel[r] = model

\* Once assigned, the global is never assigned again.
C5_ModelNeverReassigned == (model # NotLoaded) => (model' = model)

\* C5: the model is loaded exactly once per process and before any request is
\* accepted; a failed load means the process never listens; after the load the
\* same object serves every request and no handler reassigns it.
C5_ModelLoadedOnceAndReadOnly ==
    [] C5_LoadedOnceBeforeServing /\ [][C5_ModelNeverReassigned]_vars

\* Two encode calls served by the one loaded model.
C5_Witness ==
    /\ server = "serving"
    /\ loads = 1
    /\ \E r, q \in encodeCalls : r # q /\ pc[r] = "done" /\ pc[q] = "done"

\* C6: every answer to POST /embed is either 200 with one vector for every
\* sentence sent, or an error carrying no vectors; an encode failure never
\* ends in a 200.
C6_AllOrNothing ==
    \A r \in Requests :
        (route[r] = "embed" /\ Answered(r))
        => \/ /\ resp[r].status = 200
              /\ resp[r].kind = "array"
              /\ r \notin raised
              /\ body[r] \in ValidBodies
              /\ Len(resp[r].vectors) = Len(SentencesOf(r))
           \/ /\ resp[r].status \in 400..599
              /\ resp[r].kind # "array"
              /\ resp[r].vectors = <<>>

\* A two-sentence batch whose encode raised, answered without vectors, next to
\* a two-sentence batch answered in full.
C6_Witness ==
    \E r \in raised, q \in Requests :
        /\ Len(SentencesOf(r)) = 2
        /\ resp[r].status = 500
        /\ EmbedOk(q)
        /\ Len(resp[q].vectors) = 2

\* C7: every vector in every /embed answer of a running instance has the same
\* length D, the dimensionality of the loaded model.
C7_FixedDimension ==
    \A r, q \in Requests :
        (EmbedOk(r) /\ EmbedOk(q))
        => \A i \in 1..Len(resp[r].vectors), j \in 1..Len(resp[q].vectors) :
              /\ Len(resp[r].vectors[i]) = Len(resp[q].vectors[j])
              /\ Len(resp[r].vectors[i]) = Dim(model)

\* A one-sentence request answered with exactly one array, beside a
\* two-sentence one.
C7_Witness ==
    \E r, q \in Requests :
        /\ EmbedOk(r) /\ EmbedOk(q)
        /\ Len(SentencesOf(r)) = 1
        /\ Len(resp[r].vectors) = 1
        /\ Len(resp[r].vectors[1]) = Dim(model)
        /\ Len(resp[q].vectors) = 2

\* The permutations of 1..n, for every length a request can have.
Perms == [n \in 0..MaxLen |->
            {p \in [1..n -> 1..n] : \A i, j \in 1..n : p[i] = p[j] => i = j}]

\* C8: if the sentences of one answered request are a permutation p of those
\* of another, its vectors are the same permutation of the other's; the vector
\* of a sentence is the same wherever and beside whatever it is sent.
C8_PermutationEquivariant ==
    \A r, q \in Requests :
        (EmbedOk(r) /\ EmbedOk(q))
        => LET S == SentencesOf(r)
               T == SentencesOf(q)
           IN  /\ \A p \in Perms[Len(S)] :
                     T = [i \in 1..Len(S) |-> S[p[i]]]
                     => resp[q].vectors = [i \in 1..Len(S) |-> resp[r].vectors[p[i]]]
               /\ \A i \in 1..Len(S), j \in 1..Len(T) :
                     S[i] = T[j] => resp[r].vectors[i] = resp[q].vectors[j]

\* The same two sentences sent in both orders, both answered.
C8_Witness ==
    \E r, q \in Requests :
        /\ EmbedOk(r) /\ EmbedOk(q)
        /\ SentencesOf(r) = <<"", "hi">>
        /\ SentencesOf(q) = <<"hi", "">>
        /\ resp[r].vectors[1] = resp[q].vectors[2]
        /\ resp[r].vectors[1] # resp[q].vectors[1]

Encoding == {r \in Requests : pc[r] = "encoding"}

\* At most one encode call is in progress.
C10_AtMostOneEncoding == Cardinality(Encoding) <= 1

\* A step taken while an encode call is in progress and still in progress
\* afterwards starts no handler: it enters neither embed nor health.
C10_NoHandlerStartsDuringEncode ==
    (\E r \in Encoding : pc'[r] = "encoding")
    => \A q \in Requests :
          /\ ~(pc[q] # "encoding" /\ pc'[q] = "encoding")
          /\ ~(route[q] = "health" /\ pc[q] = "received" /\ pc'[q] = "done")

\* C10: embed runs model.encode on the event loop's thread without awaiting,
\* so at most one encode call is in progress at a time and no handler starts
\* between its start and its return.
C10_HandlersStrictlySerial ==
    [] C10_AtMostOneEncoding /\ [][C10_NoHandlerStartsDuringEncode]_vars

\* Two requests in flight at once: one inside encode, the other (embed or
\* health) received and waiting for the loop.
C10_Witness ==
    \E r \in Encoding, q \in Requests :
        /\ running = r
        /\ pc[q] = "received"
        /\ ~ ENABLED (RejectInvalid(q) \/ EmbedCall(q) \/ Health(q))

====
